---- MODULE Spec2Model ----
(***************************************************************************)
(* Reduction of the tunnel-routing problem to propositional satisfiability *)
(* (src/src/TunnelRouting/TunnelReduction.c).                              *)
(*                                                                         *)
(* tn_reduction builds the conjunction phi_1 /\ phi_2 /\ phi_3 /\ phi_4 /\ *)
(* phi_6 /\ phi_8 over the variables x[node,pos,height], y4[pos,height]    *)
(* and y6[pos,height]; tn_get_path_from_model decodes an assignment into a *)
(* path.  A formula is modelled by its truth value under an assignment M,  *)
(* M being the set of the variables that are true.  The solver is the      *)
(* environment: it extends an assignment one position at a time, never     *)
(* keeping an assignment that falsifies a conjunct of the formula whose    *)
(* variables are all assigned, and reports "unsat" when no assignment      *)
(* satisfies the formula.                                                  *)
(***************************************************************************)
EXTENDS Integers, Sequences, FiniteSets, TLC

VARIABLES network, length, model, assigned, pc, path, printed,
          num_constraints, iter

vars == <<network, length, model, assigned, pc, path, printed,
          num_constraints, iter>>

\* Longest path length drawn.
MaxLen == 2

\* The numbers of nodes of the networks drawn.
NodeCounts == {2, 3}

(***************************************************************************)
(* The network (TunnelNetwork.h, a collaborator of the reduction).         *)
(***************************************************************************)
stack_action ==
    {"transmit_4", "transmit_6",
     "push_4_4", "push_4_6", "push_6_4", "push_6_6",
     "pop_4_4", "pop_4_6", "pop_6_4", "pop_6_6"}

tn_get_num_nodes(net) == net.n

tn_get_initial(net) == net.initial

tn_get_final(net) == net.final

tn_is_edge(net, u, v) == <<u, v>> \in net.edges

tn_node_has_action(net, u, a) == a \in net.acts[u]

\* The action sets a node is given in the networks drawn.
ActionMenu ==
    {{"transmit_4"},
     {"transmit_4", "transmit_6"},
     {"push_4_6"},
     {"pop_6_4"},
     {"pop_4_6"},
     {"transmit_4", "push_4_4"},
     {"transmit_4", "pop_4_4"},
     {"push_4_4", "push_4_6"},
     {"transmit_4", "push_4_4", "pop_4_4"}}

\* The action sets the sink is given.
SinkMenu ==
    {{"transmit_4"},
     {"transmit_4", "push_4_4", "pop_4_4"}}

\* The chain 0 -> 1 -> ... -> n-1, which every network drawn has.
Chain(n) == {<<u, u + 1>> : u \in 0..(n - 2)}

\* The edges a network drawn may have besides: a self-loop on the source
\* and the back edge 1 -> 0.
ExtraEdges == {<<0, 0>>, <<1, 0>>}

\* A network: the source is node 0, the sink node n-1; the source and the
\* relay nodes get an action set of ActionMenu, the sink one of SinkMenu.
Networks ==
    UNION { { [n |-> n, initial |-> 0, final |-> n - 1,
               edges |-> Chain(n) \cup E,
               acts |-> [u \in 0..(n - 1) |->
                           IF u = 0 THEN p[1]
                           ELSE IF u = n - 1 THEN p[3] ELSE p[2]]] :
                E \in SUBSET ExtraEdges,
                p \in ActionMenu \X ActionMenu \X SinkMenu } :
            n \in NodeCounts }

(***************************************************************************)
(* The variable namer and the model query.                                 *)
(***************************************************************************)
tn_path_variable(node, pos, stack_height) ==
    <<"node", node, "pos", pos, "height", stack_height>>

tn_4_variable(pos, height) == <<"4 at height", height, "on pos", pos>>

tn_6_variable(pos, height) == <<"6 at height", height, "on pos", pos>>

value_of_var_in_model(M, var) == var \in M

get_stack_size(len) == len \div 2 + 1

\* Exactly one of the variables listed is true.
uniqueFormula(M, varlist) == Cardinality(varlist \cap M) = 1

Nodes(net) == 0..(tn_get_num_nodes(net) - 1)

Heights(len) == 0..(get_stack_size(len) - 1)

(***************************************************************************)
(* phi_1: exactly one state (node, height) at every position.              *)
(***************************************************************************)
\* unicite_at with the inner loop stopped one height short.
unicite_at_short(net, len, M, i) ==
    uniqueFormula(M, {tn_path_variable(node, i, h) :
                        node \in Nodes(net), h \in 0..(get_stack_size(len) - 2)})

\* The body of the loop over the positions, at position i.
unicite_at(net, len, M, i) ==
    uniqueFormula(M, {tn_path_variable(node, i, h) :
                        node \in Nodes(net), h \in Heights(len)})

unicite(net, len, M) == \A i \in 0..len : unicite_at(net, len, M, i)

(***************************************************************************)
(* phi_2: the path leaves the source and reaches the sink with the stack   *)
(* reduced to the bottom marker 4.                                         *)
(***************************************************************************)
\* constraints[0] and constraints[1].
depart(net, M) ==
    /\ value_of_var_in_model(M, tn_path_variable(tn_get_initial(net), 0, 0))
    /\ value_of_var_in_model(M, tn_4_variable(0, 0))

\* arrivee with the sink expected one position early.
arrivee_early(net, len, M) ==
    /\ value_of_var_in_model(M, tn_path_variable(tn_get_final(net), len - 1, 0))
    /\ value_of_var_in_model(M, tn_4_variable(len - 1, 0))

\* constraints[2] and constraints[3].
arrivee(net, len, M) ==
    /\ value_of_var_in_model(M, tn_path_variable(tn_get_final(net), len, 0))
    /\ value_of_var_in_model(M, tn_4_variable(len, 0))

contrainte_depart_arrivee(net, len, M) == depart(net, M) /\ arrivee(net, len, M)

(***************************************************************************)
(* phi_3 (with phi_7): the transitions.                                    *)
(***************************************************************************)
X(M, node, pos, h) == value_of_var_in_model(M, tn_path_variable(node, pos, h))

Y4(M, pos, h) == value_of_var_in_model(M, tn_4_variable(pos, h))

Y6(M, pos, h) == value_of_var_in_model(M, tn_6_variable(pos, h))

TransmitTags == {"transmit_4", "transmit_6"}

PushTags == {"push_4_4", "push_4_6", "push_6_4", "push_6_6"}

PopTags == {"pop_4_4", "pop_4_6", "pop_6_4", "pop_6_6"}

Enabled(net, u, tags) == {a \in tags : tn_node_has_action(net, u, a)}

\* height_change_at with the bounds of delta off by one.
height_change_at_wide(net, len, M, i) ==
    \A u \in Nodes(net), h \in Heights(len), v \in Nodes(net), h_prime \in Heights(len) :
        (h_prime - h < -2 \/ h_prime - h > 2)
            => ~(X(M, u, i, h) /\ X(M, v, i + 1, h_prime))

\* CONTRAINTE 1: no change of height other than -1, 0, +1.
height_change_at(net, len, M, i) ==
    \A u \in Nodes(net), h \in Heights(len), v \in Nodes(net), h_prime \in Heights(len) :
        (h_prime - h < -1 \/ h_prime - h > 1)
            => ~(X(M, u, i, h) /\ X(M, v, i + 1, h_prime))

\* CONTRAINTE 2: u -> v is not an edge.
non_edge_at(len, M, i, u, h, v) ==
    /\ ~(X(M, u, i, h) /\ X(M, v, i + 1, h))
    /\ (h + 1 < get_stack_size(len)) => ~(X(M, u, i, h) /\ X(M, v, i + 1, h + 1))
    /\ (h > 0) => ~(X(M, u, i, h) /\ X(M, v, i + 1, h - 1))

\* One entry of trans_conditions.
trans_condition(M, i, h, a) ==
    CASE a = "transmit_4" -> Y4(M, i, h)
      [] a = "transmit_6" -> Y6(M, i, h)

\* One entry of push_conditions.
push_condition(M, i, h, a) ==
    CASE a = "push_4_4" -> Y4(M, i, h) /\ Y4(M, i + 1, h + 1)
      [] a = "push_4_6" -> Y4(M, i, h) /\ Y6(M, i + 1, h + 1)
      [] a = "push_6_4" -> Y6(M, i, h) /\ Y4(M, i + 1, h + 1)
      [] a = "push_6_6" -> Y6(M, i, h) /\ Y6(M, i + 1, h + 1)

\* pop_condition with pop_a_b reading a on top and b underneath.
pop_condition_top_first(M, i, h, a) ==
    CASE a = "pop_4_4" -> Y4(M, i, h) /\ Y4(M, i, h - 1)
      [] a = "pop_4_6" -> Y4(M, i, h) /\ Y6(M, i, h - 1)
      [] a = "pop_6_4" -> Y6(M, i, h) /\ Y4(M, i, h - 1)
      [] a = "pop_6_6" -> Y6(M, i, h) /\ Y6(M, i, h - 1)

\* One entry of pop_conditions.
pop_condition(M, i, h, a) ==
    CASE a = "pop_4_4" -> Y4(M, i, h) /\ Y4(M, i, h - 1)
      [] a = "pop_4_6" -> Y6(M, i, h) /\ Y4(M, i, h - 1)
      [] a = "pop_6_4" -> Y4(M, i, h) /\ Y6(M, i, h - 1)
      [] a = "pop_6_6" -> Y6(M, i, h) /\ Y6(M, i, h - 1)

\* transmit_rule_at without the ban when no transmit action is enabled.
transmit_rule_at_no_ban(net, M, i, u, h, v) ==
    LET trans_transition == X(M, u, i, h) /\ X(M, v, i + 1, h)
        conds == Enabled(net, u, TransmitTags)
    IN  (conds # {}) =>
            (trans_transition => \E a \in conds : trans_condition(M, i, h, a))

\* CONTRAINTE 3, TRANSMIT: u -> v is an edge, the height stays h.
transmit_rule_at(net, M, i, u, h, v) ==
    LET trans_transition == X(M, u, i, h) /\ X(M, v, i + 1, h)
        conds == Enabled(net, u, TransmitTags)
    IN  IF conds # {}
        THEN trans_transition => \E a \in conds : trans_condition(M, i, h, a)
        ELSE ~trans_transition

\* push_rule_at without the ban when no push action is enabled.
push_rule_at_no_ban(net, len, M, i, u, h, v) ==
    (h + 1 < get_stack_size(len)) =>
        LET push_transition == X(M, u, i, h) /\ X(M, v, i + 1, h + 1)
            conds == Enabled(net, u, PushTags)
        IN  (conds # {}) =>
                (push_transition => \E a \in conds : push_condition(M, i, h, a))

\* CONTRAINTE 3, PUSH: u -> v is an edge, the height becomes h + 1.
push_rule_at(net, len, M, i, u, h, v) ==
    (h + 1 < get_stack_size(len)) =>
        LET push_transition == X(M, u, i, h) /\ X(M, v, i + 1, h + 1)
            conds == Enabled(net, u, PushTags)
        IN  IF conds # {}
            THEN push_transition => \E a \in conds : push_condition(M, i, h, a)
            ELSE ~push_transition

\* CONTRAINTE 3, POP: u -> v is an edge, the height becomes h - 1.
pop_rule_at(net, M, i, u, h, v) ==
    (h > 0) =>
        LET pop_transition == X(M, u, i, h) /\ X(M, v, i + 1, h - 1)
            conds == Enabled(net, u, PopTags)
        IN  IF conds # {}
            THEN pop_transition => \E a \in conds : pop_condition(M, i, h, a)
            ELSE ~pop_transition

\* The successors array of the state (u, h) at position i.
successors(net, len, u, i, h) ==
    UNION { (IF Enabled(net, u, TransmitTags) # {}
             THEN {tn_path_variable(v, i + 1, h)} ELSE {})
            \cup
            (IF h + 1 < get_stack_size(len) /\ Enabled(net, u, PushTags) # {}
             THEN {tn_path_variable(v, i + 1, h + 1)} ELSE {})
            \cup
            (IF h > 0 /\ Enabled(net, u, PopTags) # {}
             THEN {tn_path_variable(v, i + 1, h - 1)} ELSE {}) :
            v \in {w \in Nodes(net) : tn_is_edge(net, u, w)} }

\* "If I am in this state then I go to one of its successors".
must_go_somewhere_at(net, len, M, i, u, h) ==
    LET succ == successors(net, len, u, i, h)
    IN  (succ # {}) =>
            (X(M, u, i, h) => \E s \in succ : value_of_var_in_model(M, s))

\* The second loop nest, at position i.
edge_rules_at(net, len, M, i) ==
    \A u \in Nodes(net), h \in Heights(len) :
        /\ \A v \in Nodes(net) :
              IF ~tn_is_edge(net, u, v)
              THEN non_edge_at(len, M, i, u, h, v)
              ELSE /\ transmit_rule_at(net, M, i, u, h, v)
                   /\ push_rule_at(net, len, M, i, u, h, v)
                   /\ pop_rule_at(net, M, i, u, h, v)
        /\ must_go_somewhere_at(net, len, M, i, u, h)

\* All the constraints that join position i to position i + 1.
transitions_at(net, len, M, i) ==
    height_change_at(net, len, M, i) /\ edge_rules_at(net, len, M, i)

creer_contraintes_transitions(net, len, M) ==
    \A i \in 0..(len - 1) : transitions_at(net, len, M, i)

(***************************************************************************)
(* The staging buffer of phi_3: creer_contraintes_transitions stores every *)
(* constraint it builds in all_constraints, a buffer of max_constraints    *)
(* entries, at the index num_constraints, which it then increments.  The   *)
(* products below stay far under 2^31 for the networks and lengths drawn.  *)
(***************************************************************************)
max_constraints(net, len) ==
    len * tn_get_num_nodes(net) * tn_get_num_nodes(net) * get_stack_size(len) * 30

\* The stores of the first loop nest at one position: one for every
\* (u, h, v, h_prime) whose change of height is not -1, 0 or +1.
height_change_stores(net, len) ==
    {s \in Nodes(net) \X Heights(len) \X Nodes(net) \X Heights(len) :
        LET delta == s[4] - s[2] IN delta < -1 \/ delta > 1}

\* The stores of the second loop nest at one position for the pair (u, v)
\* at height h, each named by the class of the move it constrains: the
\* three bans of a pair that is not an edge, the three rules of an edge.
pair_stores(net, len, u, h, v) ==
    IF ~tn_is_edge(net, u, v)
    THEN {"transmit"}
         \cup (IF h + 1 < get_stack_size(len) THEN {"push"} ELSE {})
         \cup (IF h > 0 THEN {"pop"} ELSE {})
    ELSE {"transmit"}
         \cup (IF h + 1 < get_stack_size(len) THEN {"push"} ELSE {})
         \cup (IF h > 0 THEN {"pop"} ELSE {})

\* The states (u, h) for which must_go_somewhere is stored at position i.
must_go_stores(net, len, i) ==
    {s \in Nodes(net) \X Heights(len) : successors(net, len, s[1], i, s[2]) # {}}

\* The stores of the second loop nest at position i.
edge_rules_stores(net, len, i) ==
    {s \in Nodes(net) \X Heights(len) \X Nodes(net) \X {"transmit", "push", "pop"} :
        s[4] \in pair_stores(net, len, s[1], s[2], s[3])}
    \cup must_go_stores(net, len, i)

(***************************************************************************)
(* phi_4: the cells 0..h of a stack of height h hold exactly one symbol.   *)
(***************************************************************************)
\* pile_bien_definie_at with the cells 0..h-1 only.
pile_bien_definie_at_below(net, len, M, i) ==
    \A h \in Heights(len) :
        LET pile_height_h == \E node \in Nodes(net) : X(M, node, i, h)
            all_cells_ok ==
                \A k \in 0..(h - 1) :
                    \/ (Y4(M, i, k) /\ ~Y6(M, i, k))
                    \/ (~Y4(M, i, k) /\ Y6(M, i, k))
        IN  pile_height_h => all_cells_ok

pile_bien_definie_at(net, len, M, i) ==
    \A h \in Heights(len) :
        LET pile_height_h == \E node \in Nodes(net) : X(M, node, i, h)
            all_cells_ok ==
                \A k \in 0..h :
                    \/ (Y4(M, i, k) /\ ~Y6(M, i, k))
                    \/ (~Y4(M, i, k) /\ Y6(M, i, k))
        IN  pile_height_h => all_cells_ok

creer_contrainte_pile_bien_definie(net, len, M) ==
    \A i \in 0..len : pile_bien_definie_at(net, len, M, i)

(***************************************************************************)
(* phi_5: the top of the stack agrees with the operation.  Built by        *)
(* create_top_operation_constraint, which tn_reduction does not call.      *)
(***************************************************************************)
\* What the constraint of action a requires of the stack.
top_condition(M, i, h, a) ==
    CASE a = "transmit_4" -> Y4(M, i, h)
      [] a = "transmit_6" -> Y6(M, i, h)
      [] a = "push_4_4" -> Y4(M, i, h) /\ Y4(M, i + 1, h + 1)
      [] a = "push_4_6" -> Y4(M, i, h) /\ Y6(M, i + 1, h + 1)
      [] a = "push_6_4" -> Y6(M, i, h) /\ Y4(M, i + 1, h + 1)
      [] a = "push_6_6" -> Y6(M, i, h) /\ Y6(M, i + 1, h + 1)
      [] a = "pop_4_4" -> Y4(M, i, h) /\ Y4(M, i, h - 1)
      [] a = "pop_4_6" -> Y6(M, i, h) /\ Y4(M, i, h - 1)
      [] a = "pop_6_4" -> Y4(M, i, h) /\ Y6(M, i, h - 1)
      [] a = "pop_6_6" -> Y6(M, i, h) /\ Y6(M, i, h - 1)

top_operation_at(net, len, M, i) ==
    \A u \in Nodes(net), v \in Nodes(net) :
        tn_is_edge(net, u, v) =>
            \A h \in Heights(len) :
                /\ \A a \in Enabled(net, u, TransmitTags) :
                      (X(M, u, i, h) /\ X(M, v, i + 1, h))
                          => top_condition(M, i, h, a)
                /\ (h + 1 < get_stack_size(len)) =>
                      \A a \in Enabled(net, u, PushTags) :
                          (X(M, u, i, h) /\ X(M, v, i + 1, h + 1))
                              => top_condition(M, i, h, a)
                /\ (h > 0) =>
                      \A a \in Enabled(net, u, PopTags) :
                          (X(M, u, i, h) /\ X(M, v, i + 1, h - 1))
                              => top_condition(M, i, h, a)

create_top_operation_constraint(net, len, M) ==
    \A i \in 0..(len - 1) : top_operation_at(net, len, M, i)

(***************************************************************************)
(* phi_6: the evolution of the stack.                                      *)
(***************************************************************************)
\* Cell k holds the same at positions i and i + 1.
preserved(M, i, k) ==
    /\ Y4(M, i, k) <=> Y4(M, i + 1, k)
    /\ Y6(M, i, k) <=> Y6(M, i + 1, k)

\* conds[0] of the block of push action a: the new top.
new_top(M, i, h, a) ==
    CASE a = "push_4_4" -> Y4(M, i + 1, h + 1)
      [] a = "push_4_6" -> Y6(M, i + 1, h + 1)
      [] a = "push_6_4" -> Y4(M, i + 1, h + 1)
      [] a = "push_6_6" -> Y6(M, i + 1, h + 1)

\* stack_evolution_at with the top cell left out of the cells a transmit
\* preserves.
stack_evolution_at_transmit_below(net, len, M, i) ==
    \A u \in Nodes(net), v \in Nodes(net) :
        tn_is_edge(net, u, v) =>
            \A h \in Heights(len) :
                /\ (Enabled(net, u, TransmitTags) # {}) =>
                      ((X(M, u, i, h) /\ X(M, v, i + 1, h))
                          => \A k \in 0..(h - 1) : preserved(M, i, k))
                /\ (h + 1 < get_stack_size(len)) =>
                      \A a \in Enabled(net, u, PushTags) :
                          (X(M, u, i, h) /\ X(M, v, i + 1, h + 1))
                              => /\ new_top(M, i, h, a)
                                 /\ \A k \in 0..h : preserved(M, i, k)
                /\ (h > 0 /\ Enabled(net, u, PopTags) # {}) =>
                      ((X(M, u, i, h) /\ X(M, v, i + 1, h - 1))
                          => \A k \in 0..(h - 1) : preserved(M, i, k))

stack_evolution_at(net, len, M, i) ==
    \A u \in Nodes(net), v \in Nodes(net) :
        tn_is_edge(net, u, v) =>
            \A h \in Heights(len) :
                /\ (Enabled(net, u, TransmitTags) # {}) =>
                      ((X(M, u, i, h) /\ X(M, v, i + 1, h))
                          => \A k \in 0..h : preserved(M, i, k))
                /\ (h + 1 < get_stack_size(len)) =>
                      \A a \in Enabled(net, u, PushTags) :
                          (X(M, u, i, h) /\ X(M, v, i + 1, h + 1))
                              => /\ new_top(M, i, h, a)
                                 /\ \A k \in 0..h : preserved(M, i, k)
                /\ (h > 0 /\ Enabled(net, u, PopTags) # {}) =>
                      ((X(M, u, i, h) /\ X(M, v, i + 1, h - 1))
                          => \A k \in 0..(h - 1) : preserved(M, i, k))

create_stack_evolution_constraint(net, len, M) ==
    \A i \in 0..(len - 1) : stack_evolution_at(net, len, M, i)

(***************************************************************************)
(* phi_8: no state (node, height) at two positions.                        *)
(***************************************************************************)
\* simple_path_at with the pairs of neighbouring positions left out.
simple_path_at_skip(net, len, M, i, j) ==
    (j > i + 1) =>
        \A u \in Nodes(net), h \in Heights(len) :
            ~(X(M, u, i, h) /\ X(M, u, j, h))

simple_path_at(net, len, M, i, j) ==
    \A u \in Nodes(net), h \in Heights(len) :
        ~(X(M, u, i, h) /\ X(M, u, j, h))

create_simple_path_constraint(net, len, M) ==
    \A i \in 0..len : \A j \in (i + 1)..len : simple_path_at(net, len, M, i, j)

(***************************************************************************)
(* The reduction.                                                          *)
(***************************************************************************)
tn_reduction(net, len, M) ==
    /\ unicite(net, len, M)
    /\ contrainte_depart_arrivee(net, len, M)
    /\ creer_contraintes_transitions(net, len, M)
    /\ creer_contrainte_pile_bien_definie(net, len, M)
    /\ create_stack_evolution_constraint(net, len, M)
    /\ create_simple_path_constraint(net, len, M)

(***************************************************************************)
(* The decoder.                                                            *)
(***************************************************************************)
\* The value of "int action = 0" when no branch assigns it.
action_0 == "stack_action 0"

\* The state the scan of position pos leaves in (src, src_height): the
\* last true x[n, pos, height] in the order of the loops, -1 if none.
scan(net, bound, M, pos) ==
    LET found == {s \in Nodes(net) \X Heights(bound) : X(M, s[1], pos, s[2])}
    IN  IF found = {} THEN <<-1, -1>>
        ELSE CHOOSE s \in found :
                \A t \in found : t[1] < s[1] \/ (t[1] = s[1] /\ t[2] <= s[2])

\* decode_action with the pushed symbol read at position pos.
decode_action_push_pos(M, pos, src_height, tgt_height) ==
    IF src_height = tgt_height
    THEN IF Y4(M, pos, src_height) THEN "transmit_4" ELSE "transmit_6"
    ELSE IF src_height = tgt_height - 1
    THEN IF Y4(M, pos, src_height)
         THEN IF Y4(M, pos, tgt_height) THEN "push_4_4" ELSE "push_4_6"
         ELSE IF Y4(M, pos, tgt_height) THEN "push_6_4" ELSE "push_6_6"
    ELSE IF src_height = tgt_height + 1
    THEN IF Y4(M, pos, src_height)
         THEN IF Y4(M, pos + 1, tgt_height) THEN "pop_4_4" ELSE "pop_6_4"
         ELSE IF Y4(M, pos + 1, tgt_height) THEN "pop_4_6" ELSE "pop_6_6"
    ELSE action_0

\* decode_action with the two transmit tags exchanged.
decode_action_transmit_swapped(M, pos, src_height, tgt_height) ==
    IF src_height = tgt_height
    THEN IF Y4(M, pos, src_height) THEN "transmit_6" ELSE "transmit_4"
    ELSE IF src_height = tgt_height - 1
    THEN IF Y4(M, pos, src_height)
         THEN IF Y4(M, pos + 1, tgt_height) THEN "push_4_4" ELSE "push_4_6"
         ELSE IF Y4(M, pos + 1, tgt_height) THEN "push_6_4" ELSE "push_6_6"
    ELSE IF src_height = tgt_height + 1
    THEN IF Y4(M, pos, src_height)
         THEN IF Y4(M, pos + 1, tgt_height) THEN "pop_4_4" ELSE "pop_6_4"
         ELSE IF Y4(M, pos + 1, tgt_height) THEN "pop_4_6" ELSE "pop_6_6"
    ELSE action_0

\* decode_action with the tags pop_4_6 and pop_6_4 exchanged.
decode_action_pop_swapped(M, pos, src_height, tgt_height) ==
    IF src_height = tgt_height
    THEN IF Y4(M, pos, src_height) THEN "transmit_4" ELSE "transmit_6"
    ELSE IF src_height = tgt_height - 1
    THEN IF Y4(M, pos, src_height)
         THEN IF Y4(M, pos + 1, tgt_height) THEN "push_4_4" ELSE "push_4_6"
         ELSE IF Y4(M, pos + 1, tgt_height) THEN "push_6_4" ELSE "push_6_6"
    ELSE IF src_height = tgt_height + 1
    THEN IF Y4(M, pos, src_height)
         THEN IF Y4(M, pos + 1, tgt_height) THEN "pop_4_4" ELSE "pop_4_6"
         ELSE IF Y4(M, pos + 1, tgt_height) THEN "pop_6_4" ELSE "pop_6_6"
    ELSE action_0

decode_action(M, pos, src_height, tgt_height) ==
    IF src_height = tgt_height
    THEN IF Y4(M, pos, src_height) THEN "transmit_4" ELSE "transmit_6"
    ELSE IF src_height = tgt_height - 1
    THEN IF Y4(M, pos, src_height)
         THEN IF Y4(M, pos + 1, tgt_height) THEN "push_4_4" ELSE "push_4_6"
         ELSE IF Y4(M, pos + 1, tgt_height) THEN "push_6_4" ELSE "push_6_6"
    ELSE IF src_height = tgt_height + 1
    THEN IF Y4(M, pos, src_height)
         THEN IF Y4(M, pos + 1, tgt_height) THEN "pop_4_4" ELSE "pop_6_4"
         ELSE IF Y4(M, pos + 1, tgt_height) THEN "pop_4_6" ELSE "pop_6_6"
    ELSE action_0

\* tn_get_path_from_model with the two nodes of a step exchanged.
tn_get_path_from_model_swapped(net, bound, M) ==
    [pos \in 0..(bound - 1) |->
        LET s == scan(net, bound, M, pos)
            t == scan(net, bound, M, pos + 1)
        IN  [action |-> decode_action(M, pos, s[2], t[2]),
             src |-> t[1], tgt |-> s[1]]]

\* path[pos] for pos in 0..bound-1.
tn_get_path_from_model(net, bound, M) ==
    [pos \in 0..(bound - 1) |->
        LET s == scan(net, bound, M, pos)
            t == scan(net, bound, M, pos + 1)
        IN  [action |-> decode_action(M, pos, s[2], t[2]),
             src |-> s[1], tgt |-> t[1]]]

(***************************************************************************)
(* The pretty-printer.  What tn_print_model prints at a position is kept   *)
(* as a record: the number of pairs (node, height) printed, the cells of   *)
(* the "Stack:" line and whether the warning follows it.                   *)
(***************************************************************************)
\* print_cell with the test of above_top left out for a 6.
print_cell_six_unchecked(M, pos, height, st) ==
    IF Y4(M, pos, height)
    THEN IF Y6(M, pos, height)
         THEN [st EXCEPT !.cells = Append(@, "|X"), !.misdefined = TRUE]
         ELSE [st EXCEPT !.cells = Append(@, "|4"),
                         !.misdefined = @ \/ st.above_top]
    ELSE IF Y6(M, pos, height)
    THEN [st EXCEPT !.cells = Append(@, "|6")]
    ELSE [st EXCEPT !.cells = Append(@, "| "), !.above_top = TRUE]

\* The body of the loop over the cells: cell height of position pos, st
\* holding cells printed so far, misdefined and above_top.
print_cell(M, pos, height, st) ==
    IF Y4(M, pos, height)
    THEN IF Y6(M, pos, height)
         THEN [st EXCEPT !.cells = Append(@, "|X"), !.misdefined = TRUE]
         ELSE [st EXCEPT !.cells = Append(@, "|4"),
                         !.misdefined = @ \/ st.above_top]
    ELSE IF Y6(M, pos, height)
    THEN [st EXCEPT !.cells = Append(@, "|6"),
                    !.misdefined = @ \/ st.above_top]
    ELSE [st EXCEPT !.cells = Append(@, "| "), !.above_top = TRUE]

\* The loop over the cells, from cell height on.
RECURSIVE print_stack(_, _, _, _, _)
print_stack(M, pos, height, stack_size, st) ==
    IF height >= stack_size THEN st
    ELSE print_stack(M, pos, height + 1, stack_size, print_cell(M, pos, height, st))

\* What is printed for the positions 0..bound.
tn_print_model(net, bound, M) ==
    [pos \in 0..bound |->
        LET num_seen == Cardinality({s \in Nodes(net) \X Heights(bound) :
                                        X(M, s[1], pos, s[2])})
            st == print_stack(M, pos, 0, get_stack_size(bound),
                              [cells |-> <<>>, misdefined |-> FALSE,
                               above_top |-> FALSE])
        IN  [num_seen |-> num_seen,
             no_node |-> (num_seen = 0),
             several |-> (num_seen > 1),
             stack |-> st.cells,
             warning |-> st.misdefined]]

(***************************************************************************)
(* The solver.                                                             *)
(***************************************************************************)
\* M with the variables of position p set: the x of xs, the y4 and y6 of
\* the cells of c4 and c6.
Assign(M, p, xs, c4, c6) ==
    M \cup {tn_path_variable(s[1], p, s[2]) : s \in xs}
      \cup {tn_4_variable(p, h) : h \in c4}
      \cup {tn_6_variable(p, h) : h \in c6}

\* The conjuncts of the formula whose last variable is one of position p.
Consistent(net, len, M, p) ==
    /\ unicite_at(net, len, M, p)
    /\ (p = 0) => depart(net, M)
    /\ (p = len) => arrivee(net, len, M)
    /\ pile_bien_definie_at(net, len, M, p)
    /\ (p > 0) => /\ transitions_at(net, len, M, p - 1)
                  /\ stack_evolution_at(net, len, M, p - 1)
    /\ \A i \in 0..(p - 1) : simple_path_at(net, len, M, i, p)

\* The cells the solver gives a symbol at a position whose true x are xs:
\* any cell, or, when it keeps to the stack, the cells up to the height.
CellsTried(len, xs, stack_only) ==
    IF stack_only
    THEN {k \in Heights(len) : \E s \in xs : k <= s[2]}
    ELSE Heights(len)

\* The assignments of positions 0..p that extend M, an assignment of
\* positions 0..p-1, and falsify no conjunct.  The solver tries the
\* assignments with no, one or two true x at position p.
Choices(net, len, M, p, stack_only) ==
    LET states == Nodes(net) \X Heights(len)
        xss == {xs \in {{}} \cup {{s, t} : s \in states, t \in states} :
                    unicite_at(net, len, Assign(M, p, xs, {}, {}), p)}
    IN  UNION { LET cells == SUBSET CellsTried(len, xs, stack_only)
                IN  {Assign(M, p, xs, c[1], c[2]) :
                        c \in {d \in cells \X cells :
                                 Consistent(net, len, Assign(M, p, xs, d[1], d[2]), p)}} :
                xs \in xss }

RECURSIVE Extend(_, _, _, _)
Extend(net, len, M, p) ==
    IF p > len THEN tn_reduction(net, len, M)
    ELSE \E M2 \in Choices(net, len, M, p, FALSE) : Extend(net, len, M2, p + 1)

\* Some assignment satisfies the formula.
Satisfiable(net, len) == Extend(net, len, {}, 0)

(***************************************************************************)
(* The run: a network and a length, the solver's answer, the decoding.     *)
(***************************************************************************)
Init ==
    /\ network \in Networks
    /\ length \in 1..MaxLen
    /\ model = {}
    /\ assigned = 0
    /\ pc = "solve"
    /\ path = <<>>
    /\ printed = <<>>
    /\ num_constraints = 0
    /\ iter = 0

\* The solver sets the variables of the next position.
SolverAssign ==
    /\ pc = "solve"
    /\ assigned <= length
    /\ \E M2 \in Choices(network, length, model, assigned, FALSE) : model' = M2
    /\ assigned' = assigned + 1
    /\ UNCHANGED <<network, length, pc, path, printed,
                 num_constraints, iter>>

\* The solver returns an assignment that satisfies tn_reduction(network, length).
SolverSat ==
    /\ pc = "solve"
    /\ assigned = length + 1
    /\ tn_reduction(network, length, model) = TRUE
    /\ pc' = "sat"
    /\ UNCHANGED <<network, length, model, assigned, path, printed,
                 num_constraints, iter>>

\* The solver finds tn_reduction(network, length) unsatisfiable.
SolverUnsat ==
    /\ pc = "solve"
    /\ assigned = 0
    /\ ~Satisfiable(network, length)
    /\ pc' = "unsat"
    /\ UNCHANGED <<network, length, model, assigned, path, printed,
                 num_constraints, iter>>

\* tn_get_path_from_model on the assignment returned.
Decode ==
    /\ pc = "sat"
    /\ path' = tn_get_path_from_model(network, length, model)
    /\ pc' = "decoded"
    /\ UNCHANGED <<network, length, model, assigned, printed,
                 num_constraints, iter>>

Next == SolverAssign \/ SolverSat \/ SolverUnsat \/ Decode

Spec == Init /\ [][Next]_vars

(***************************************************************************)
(* Longer paths, on which the stack reaches height 2.  The solver keeps to *)
(* the assignments that leave the cells above the stack empty.             *)
(***************************************************************************)
\* The path length of the longer paths.
DeepLen == 4

\* The networks of the longer paths.  The pairs: a source and a sink, each
\* with or without a self-loop.
DeepExtraEdges == {<<0, 0>>, <<1, 1>>}

DeepPairNetworks ==
    { [n |-> 2, initial |-> 0, final |-> 1,
       edges |-> Chain(2) \cup E,
       acts |-> [u \in 0..1 |-> IF u = 0 THEN p[1] ELSE p[2]]] :
        E \in SUBSET DeepExtraEdges,
        p \in ActionMenu \X ActionMenu }

\* The chains A -> M -> B with a self-loop on B, and one on A or not: A and
\* M push or transmit a symbol, B pops.
DeepSourceMenu ==
    {{"push_4_4"}, {"push_4_6"}, {"push_4_6", "transmit_6"}}

DeepMiddleMenu ==
    {{"push_4_4"}, {"push_4_6"}, {"push_6_4"}, {"push_6_6"}, {"transmit_6"}}

DeepChainNetworks ==
    { [n |-> 3, initial |-> 0, final |-> 2,
       edges |-> Chain(3) \cup {<<2, 2>>} \cup E,
       acts |-> [u \in 0..2 |-> IF u = 0 THEN p[1]
                                ELSE IF u = 1 THEN p[2] ELSE PopTags]] :
        E \in SUBSET {<<0, 0>>},
        p \in DeepSourceMenu \X DeepMiddleMenu }

DeepNetworks == DeepPairNetworks \cup DeepChainNetworks

InitDeep ==
    /\ network \in DeepNetworks
    /\ length = DeepLen
    /\ model = {}
    /\ assigned = 0
    /\ pc = "solve"
    /\ path = <<>>
    /\ printed = <<>>
    /\ num_constraints = 0
    /\ iter = 0

\* The solver sets the variables of the next position, the cells above the
\* stack left empty.
SolverAssignStack ==
    /\ pc = "solve"
    /\ assigned <= length
    /\ \E M2 \in Choices(network, length, model, assigned, TRUE) : model' = M2
    /\ assigned' = assigned + 1
    /\ UNCHANGED <<network, length, pc, path, printed,
                 num_constraints, iter>>

NextDeep == SolverAssignStack \/ SolverSat \/ Decode

SpecDeep == InitDeep /\ [][NextDeep]_vars

(***************************************************************************)
(* The decoder and the pretty-printer on a given assignment, which need    *)
(* not satisfy the formula.                                                *)
(***************************************************************************)
\* The path length of the given assignments.
GivenLen == 2

\* Nodes A = 0 and B = 1, the edge A -> B, transmit_4 at both.
GivenNetwork ==
    [n |-> 2, initial |-> 0, final |-> 1, edges |-> {<<0, 1>>},
     acts |-> [u \in 0..1 |-> {"transmit_4"}]]

\* The assignments with one or two true x at every position and a 4 in
\* every cell.
GivenStates(net, len) ==
    LET states == Nodes(net) \X Heights(len)
        xss == {{s, t} : s \in states, t \in states}
    IN  { UNION {Assign({}, p, f[p], Heights(len), {}) : p \in 0..len} :
            f \in [0..len -> xss] }

\* The assignments that stay at (A, 0) and give every cell any of the
\* bits y4 and y6.
GivenStacks(net, len) ==
    { UNION {Assign({}, p, {<<0, 0>>}, f[p][1], f[p][2]) : p \in 0..len} :
        f \in [0..len -> (SUBSET Heights(len)) \X (SUBSET Heights(len))] }

InitGiven ==
    /\ network = GivenNetwork
    /\ length = GivenLen
    /\ model \in GivenStates(network, length) \cup GivenStacks(network, length)
    /\ assigned = length + 1
    /\ pc = "given"
    /\ path = <<>>
    /\ printed = <<>>
    /\ num_constraints = 0
    /\ iter = 0

\* tn_get_path_from_model on the given assignment.
DecodeGiven ==
    /\ pc = "given"
    /\ path' = tn_get_path_from_model(network, length, model)
    /\ pc' = "decoded given"
    /\ UNCHANGED <<network, length, model, assigned, printed,
                 num_constraints, iter>>

\* tn_print_model on the given assignment.
PrintModel ==
    /\ pc = "given"
    /\ printed' = tn_print_model(network, length, model)
    /\ pc' = "printed"
    /\ UNCHANGED <<network, length, model, assigned, path,
                 num_constraints, iter>>

NextGiven == DecodeGiven \/ PrintModel

SpecGiven == InitGiven /\ [][NextGiven]_vars

(***************************************************************************)
(* The run of creer_contraintes_transitions as the filling of its buffer:  *)
(* one step for every iteration of the outer loop (over the positions) of  *)
(* each of its two loop nests.  pc names the loop nest, iter its position. *)
(***************************************************************************)
\* Longest path length for which the buffer is filled.
CountLen == 60

\* The action sets of the networks whose constraints are counted.
CountMenu == {{}, {"transmit_4"}, {"push_4_4", "pop_4_4"}}

\* Networks of one or two nodes, every node with the same action set, with
\* no edge, the chain, or a self-loop on the source besides.
CountNetworks ==
    UNION { { [n |-> n, initial |-> 0, final |-> n - 1,
               edges |-> E,
               acts |-> [u \in 0..(n - 1) |-> A]] :
                E \in {{}, Chain(n) \cup {<<0, 0>>}},
                A \in CountMenu } :
            n \in 1..2 }

InitCount ==
    /\ network \in CountNetworks
    /\ length \in 1..CountLen
    /\ model = {}
    /\ assigned = 0
    /\ pc = "height changes"
    /\ path = <<>>
    /\ printed = <<>>
    /\ num_constraints = 0
    /\ iter = 0

\* One iteration of the outer loop of the first loop nest; the last one
\* leaves the loop and enters the second loop nest.
HeightChangeIteration ==
    /\ pc = "height changes"
    /\ iter < length
    /\ num_constraints' =
           num_constraints + Cardinality(height_change_stores(network, length))
    /\ IF iter + 1 < length
       THEN iter' = iter + 1 /\ pc' = pc
       ELSE iter' = 0 /\ pc' = "edge rules"
    /\ UNCHANGED <<network, length, model, assigned, path, printed>>

\* One iteration of the outer loop of the second loop nest; after the last
\* one the conjunction is built and the buffer freed.
EdgeRulesIteration ==
    /\ pc = "edge rules"
    /\ iter < length
    /\ num_constraints' =
           num_constraints + Cardinality(edge_rules_stores(network, length, iter))
    /\ IF iter + 1 < length
       THEN iter' = iter + 1 /\ pc' = pc
       ELSE iter' = length /\ pc' = "built"
    /\ UNCHANGED <<network, length, model, assigned, path, printed>>

NextCount == HeightChangeIteration \/ EdgeRulesIteration

SpecCount == InitCount /\ [][NextCount]_vars

(***************************************************************************)
(* Pushdown paths, against which the formula and the decoder are judged.   *)
(* The stack is a sequence of symbols, bottom first; a stack of height h   *)
(* has h + 1 cells, cell 0 being the bottom marker.                        *)
(***************************************************************************)
Kind(a) ==
    IF a \in TransmitTags THEN "transmit"
    ELSE IF a \in PushTags THEN "push"
    ELSE IF a \in PopTags THEN "pop" ELSE "none"

\* The symbols a and b of transmit_a, push_a_b and pop_a_b.
SymA(a) ==
    IF a \in {"transmit_4", "push_4_4", "push_4_6", "pop_4_4", "pop_4_6"}
    THEN 4 ELSE 6

SymB(a) ==
    IF a \in {"transmit_4", "push_4_4", "push_6_4", "pop_4_4", "pop_6_4"}
    THEN 4 ELSE 6

Top(stack) == stack[Len(stack)]

\* The stack after action a, <<>> when a does not apply.  reading = "spec":
\* pop_a_b pops the top a and exposes b (the action table of the
\* specification); reading = "code": pop_a_b pops the top b and exposes a.
StepStack(stack, a, reading) ==
    IF stack = <<>> THEN <<>>
    ELSE IF Kind(a) = "transmit"
    THEN IF Top(stack) = SymA(a) THEN stack ELSE <<>>
    ELSE IF Kind(a) = "push"
    THEN IF Top(stack) = SymA(a) THEN Append(stack, SymB(a)) ELSE <<>>
    ELSE IF Kind(a) = "pop"
    THEN LET popped == IF reading = "spec" THEN SymA(a) ELSE SymB(a)
             exposed == IF reading = "spec" THEN SymB(a) ELSE SymA(a)
         IN  IF /\ Len(stack) >= 2
                /\ Top(stack) = popped
                /\ stack[Len(stack) - 1] = exposed
             THEN SubSeq(stack, 1, Len(stack) - 1) ELSE <<>>
    ELSE <<>>

\* The stack after steps i..len-1 of p, started on stack.
RECURSIVE RunStack(_, _, _, _, _)
RunStack(p, i, len, stack, reading) ==
    IF i >= len THEN stack
    ELSE RunStack(p, i + 1, len, StepStack(stack, p[i].action, reading), reading)

\* p is a pushdown path of len steps from the source to the sink, with the
\* stack <<4>> at both ends, every step along an edge and with an action
\* enabled at its source node.
ValidPath(net, len, p, reading) ==
    /\ DOMAIN p = 0..(len - 1)
    /\ p[0].src = tn_get_initial(net)
    /\ p[len - 1].tgt = tn_get_final(net)
    /\ \A i \in 0..(len - 2) : p[i].tgt = p[i + 1].src
    /\ \A i \in 0..(len - 1) :
          /\ p[i].src \in Nodes(net)
          /\ p[i].tgt \in Nodes(net)
          /\ tn_is_edge(net, p[i].src, p[i].tgt)
          /\ p[i].action \in stack_action
          /\ tn_node_has_action(net, p[i].src, p[i].action)
    /\ RunStack(p, 0, len, <<4>>, reading) = <<4>>

\* The simple pushdown paths of len steps that end in the sink with the
\* stack <<4>>, as extensions of the steps done so far: the path is at node
\* u with the given stack and has been in the states of seen.
RECURSIVE PathsFrom(_, _, _, _, _, _, _)
PathsFrom(net, len, done, u, stack, seen, reading) ==
    IF Len(done) = len
    THEN IF u = tn_get_final(net) /\ stack = <<4>> THEN {done} ELSE {}
    ELSE UNION { LET s2 == StepStack(stack, mv[1], reading)
                 IN  IF /\ tn_is_edge(net, u, mv[2])
                        /\ s2 # <<>>
                        /\ <<mv[2], Len(s2)>> \notin seen
                     THEN PathsFrom(net, len,
                                    Append(done, [action |-> mv[1], src |-> u, tgt |-> mv[2]]),
                                    mv[2], s2, seen \cup {<<mv[2], Len(s2)>>}, reading)
                     ELSE {} :
                 mv \in net.acts[u] \X Nodes(net) }

SimplePaths(net, len, reading) ==
    PathsFrom(net, len, <<>>, tn_get_initial(net), <<4>>,
              {<<tn_get_initial(net), 1>>}, reading)

\* A path as the decoder writes it: indexed from 0.
AsPath(steps) == [pos \in 0..(Len(steps) - 1) |-> steps[pos + 1]]

\* Every assignment that satisfies the formula.
RECURSIVE ModelsFrom(_, _, _, _)
ModelsFrom(net, len, M, p) ==
    IF p > len THEN IF tn_reduction(net, len, M) THEN {M} ELSE {}
    ELSE UNION {ModelsFrom(net, len, M2, p + 1) : M2 \in Choices(net, len, M, p, FALSE)}

Models(net, len) == ModelsFrom(net, len, {}, 0)

\* In a satisfying assignment: the states at position i.
StatesAt(i) ==
    {s \in Nodes(network) \X Heights(length) : X(model, s[1], i, s[2])}

Solved == pc \in {"sat", "decoded"}

(***************************************************************************)
(* The scenarios of the specification: nodes A = 0, M = 1, B = 2, the      *)
(* edges A -> M and M -> B only.                                           *)
(***************************************************************************)
IsChainAMB(net) ==
    /\ tn_get_num_nodes(net) = 3
    /\ net.edges = {<<0, 1>>, <<1, 2>>}
    /\ tn_get_initial(net) = 0
    /\ tn_get_final(net) = 2

Step(a, u, v) == [action |-> a, src |-> u, tgt |-> v]

(***************************************************************************)
(* C1.  Soundness (P6): the path decoded from a satisfying assignment is a *)
(* valid pushdown path of the network from the source to the sink, every   *)
(* step along an edge with an action enabled at its source node, the stack *)
(* <<4>> at both ends.                                                     *)
(***************************************************************************)
\* C1 as stated: with the action table of the specification, in which
\* pop_a_b pops the top a and exposes b.
C1_SoundnessSpecTable ==
    (pc = "decoded") => ValidPath(network, length, path, "spec")

\* C1 amended: with pop_a_b read as the code reads it, popping the top b
\* and exposing a, the decoded path is a valid pushdown path.
C1_SoundnessCodeTable ==
    (pc = "decoded") => ValidPath(network, length, path, "code")

\* A decoded path that pops a symbol other than the one it exposes.
C1_Witness ==
    /\ pc = "decoded"
    /\ \E i \in DOMAIN path : path[i].action \in {"pop_4_6", "pop_6_4"}

(***************************************************************************)
(* C2.  Completeness (P7): every valid simple pushdown path of the network *)
(* is the decoding of some assignment that satisfies the formula.  Stated  *)
(* of the paths on which the two readings of pop_a_b agree.                *)
(***************************************************************************)
C2_Completeness ==
    (pc \in {"unsat", "sat"}) =>
        \A steps \in SimplePaths(network, length, "spec")
                        \cap SimplePaths(network, length, "code") :
            \E M \in Models(network, length) :
                tn_get_path_from_model(network, length, M) = AsPath(steps)

(***************************************************************************)
(* C3.  Symbol switch: A enables only push_4_6, M only pop_6_4, L = 2.     *)
(***************************************************************************)
IsSymbolSwitch(net, pop) ==
    /\ IsChainAMB(net)
    /\ net.acts[0] = {"push_4_6"}
    /\ net.acts[1] = {pop}

\* C3 as stated: the formula is satisfiable and every satisfying assignment
\* decodes to [(push_4_6, A, M), (pop_6_4, M, B)].
C3_SymbolSwitchSpec ==
    (IsSymbolSwitch(network, "pop_6_4") /\ length = 2) =>
        /\ pc # "unsat"
        /\ (pc = "decoded") =>
              path = AsPath(<<Step("push_4_6", 0, 1), Step("pop_6_4", 1, 2)>>)

\* C3 amended: with M enabling only pop_6_4 the formula is unsatisfiable;
\* with M enabling only pop_4_6 it is satisfiable and every satisfying
\* assignment decodes to [(push_4_6, A, M), (pop_4_6, M, B)].
C3_SymbolSwitchCode ==
    /\ (IsSymbolSwitch(network, "pop_6_4") /\ length = 2) => ~Solved
    /\ (IsSymbolSwitch(network, "pop_4_6") /\ length = 2) =>
          /\ pc # "unsat"
          /\ (pc = "decoded") =>
                path = AsPath(<<Step("push_4_6", 0, 1), Step("pop_4_6", 1, 2)>>)

\* The solver has answered on the scenario of the claim.
C3_Witness ==
    /\ IsSymbolSwitch(network, "pop_6_4")
    /\ length = 2
    /\ pc = "unsat"

(***************************************************************************)
(* C4.  Push/pop round trip: transmit_4 everywhere, A also push_4_4, M     *)
(* also pop_4_4, L = 2.  The formula is satisfiable; some satisfying       *)
(* assignment decodes to [(push_4_4, A, M), (pop_4_4, M, B)] with height 1 *)
(* and the symbol 4 on top at position 1, and so does every satisfying     *)
(* assignment that takes the stack to height 1 at position 1.              *)
(***************************************************************************)
IsRoundTrip(net) ==
    /\ IsChainAMB(net)
    /\ net.acts[0] = {"transmit_4", "push_4_4"}
    /\ net.acts[1] = {"transmit_4", "pop_4_4"}
    /\ net.acts[2] = {"transmit_4"}

C5_TopOperationEntailed ==
    Solved => create_top_operation_constraint(network, length, model)

(***************************************************************************)
(* C6.  Uniqueness (P1): at every position of a satisfying assignment      *)
(* exactly one x[n, i, h] is true.                                         *)
(***************************************************************************)
C6_Uniqueness ==
    Solved => \A i \in 0..length : Cardinality(StatesAt(i)) = 1

\* A satisfying assignment of three positions that uses both heights.
C6_Witness ==
    /\ pc = "sat"
    /\ length = 2
    /\ \E n \in Nodes(network) : X(model, n, 1, 1)

(***************************************************************************)
(* C7.  Endpoints (P2): the only true x at position 0 is x[source, 0, 0],  *)
(* the only one at position L is x[sink, L, 0]; y4[0, 0] and y4[L, 0] are  *)
(* true.                                                                   *)
(***************************************************************************)
C7_Endpoints ==
    Solved =>
        /\ StatesAt(0) = {<<tn_get_initial(network), 0>>}
        /\ StatesAt(length) = {<<tn_get_final(network), 0>>}
        /\ Y4(model, 0, 0)
        /\ Y4(model, length, 0)

\* A satisfying assignment on a network whose sink has an outgoing edge.
C7_Witness ==
    /\ pc = "sat"
    /\ length = 2
    /\ \E v \in Nodes(network) : tn_is_edge(network, tn_get_final(network), v)

(***************************************************************************)
(* C8.  Transition locality (P4): the heights of consecutive positions     *)
(* differ by at most 1 and the network has the edge between their nodes.   *)
(***************************************************************************)
C8_Locality ==
    Solved =>
        \A i \in 0..(length - 1) :
            \A s \in StatesAt(i), t \in StatesAt(i + 1) :
                /\ t[2] - s[2] \in {-1, 0, 1}
                /\ tn_is_edge(network, s[1], t[1])

\* A satisfying assignment whose stack climbs to height 2, where a change
\* of height of 2 would fit the range of heights.
C8_Witness ==
    /\ pc = "sat"
    /\ get_stack_size(length) >= 3
    /\ \E i \in 0..(length - 1) :
          \E s \in StatesAt(i), t \in StatesAt(i + 1) : s[2] = 1 /\ t[2] = 2

(***************************************************************************)
(* C9.  Well-formed stack (P3): at a position of height h every cell of    *)
(* 0..h holds exactly one of the symbols 4 and 6.                          *)
(***************************************************************************)
C9_WellFormedStack ==
    Solved =>
        \A i \in 0..length :
            \A s \in StatesAt(i) :
                \A k \in 0..s[2] : Y4(model, i, k) # Y6(model, i, k)

\* A satisfying assignment with a 6 on top of the bottom marker.
C9_Witness ==
    /\ pc = "sat"
    /\ \E i \in 0..length :
          /\ \E n \in Nodes(network) : X(model, n, i, 1)
          /\ Y6(model, i, 1)
          /\ Y4(model, i, 0)

(***************************************************************************)
(* C10.  Simple path (P5): the states (node, height) of the positions      *)
(* 0..L are pairwise distinct.                                             *)
(***************************************************************************)
C10_SimplePath ==
    Solved =>
        \A i \in 0..length : \A j \in 0..length :
            (i # j) => StatesAt(i) \cap StatesAt(j) = {}

\* A satisfying assignment on a network that has a cycle through the source.
C10_Witness ==
    /\ pc = "sat"
    /\ length = 2
    /\ tn_is_edge(network, 0, 0)

(***************************************************************************)
(* C11.  Simple-path scenario: nodes A = 0 and B = 1, the edges A -> B and *)
(* B -> A only, transmit_4 enabled at both nodes, L = 2: the formula is    *)
(* unsatisfiable.                                                          *)
(***************************************************************************)
IsTwoCycle(net) ==
    /\ tn_get_num_nodes(net) = 2
    /\ net.edges = {<<0, 1>>, <<1, 0>>}
    /\ tn_get_initial(net) = 0
    /\ tn_get_final(net) = 1
    /\ \A u \in Nodes(net) : tn_node_has_action(net, u, "transmit_4")

C11_TwoCycleUnsat ==
    (IsTwoCycle(network) /\ length = 2) => ~Solved

\* The solver has answered on the scenario, B enabling a push and a pop
\* besides transmit_4.
C11_Witness ==
    /\ IsTwoCycle(network)
    /\ length = 2
    /\ pc = "unsat"
    /\ tn_node_has_action(network, 1, "push_4_4")

(***************************************************************************)
(* C12.  Trivial transmit: nodes A = 0 and B = 1, the single edge A -> B,  *)
(* transmit_4 enabled at both nodes, L = 1: the formula is satisfiable and *)
(* every satisfying assignment decodes to [(transmit_4, A, B)].            *)
(***************************************************************************)
IsTrivialTransmit(net) ==
    /\ tn_get_num_nodes(net) = 2
    /\ net.edges = {<<0, 1>>}
    /\ tn_get_initial(net) = 0
    /\ tn_get_final(net) = 1
    /\ \A u \in Nodes(net) : tn_node_has_action(net, u, "transmit_4")

C12_TrivialTransmit ==
    (IsTrivialTransmit(network) /\ length = 1) =>
        /\ pc # "unsat"
        /\ (pc = "decoded") => path = AsPath(<<Step("transmit_4", 0, 1)>>)

C12_Witness ==
    /\ IsTrivialTransmit(network)
    /\ length = 1
    /\ pc = "decoded"
    /\ path = AsPath(<<Step("transmit_4", 0, 1)>>)

(***************************************************************************)
(* C15.  Successor existence: in a satisfying assignment the state (u, h)  *)
(* of a position i < L is followed at position i + 1 by a state            *)
(* (v, h + d), d in {-1, 0, +1}, within the heights, along an edge u -> v, *)
(* with an action of the class of d enabled at u.                          *)
(***************************************************************************)
\* The tags of the class of d: pop, transmit, push.
ClassTags(d) ==
    IF d = 0 THEN TransmitTags ELSE IF d = 1 THEN PushTags ELSE PopTags

\* The states that may follow (u, h).
EligibleSuccessors(net, len, u, h) ==
    {t \in Nodes(net) \X Heights(len) :
        /\ tn_is_edge(net, u, t[1])
        /\ t[2] - h \in {-1, 0, 1}
        /\ Enabled(net, u, ClassTags(t[2] - h)) # {}}

C15_SuccessorExists ==
    Solved =>
        \A i \in 0..(length - 1) :
            \A s \in StatesAt(i) :
                StatesAt(i + 1) \cap EligibleSuccessors(network, length, s[1], s[2]) # {}

\* A satisfying assignment on a network with a state that has no eligible
\* successor, for which no successor clause is emitted.
C15_Witness ==
    /\ pc = "sat"
    /\ length = 2
    /\ \E u \in Nodes(network), h \in Heights(length) :
          /\ EligibleSuccessors(network, length, u, h) = {}
          /\ successors(network, length, u, 0, h) = {}
          /\ \E v \in Nodes(network) : tn_is_edge(network, u, v)

(***************************************************************************)
(* C16.  Stack preservation: across a transition i -> i + 1 of a           *)
(* satisfying assignment, from height h_i to height h_{i+1}, every cell of *)
(* 0..min(h_i, h_{i+1}) holds the same at both positions.                  *)
(***************************************************************************)
Min(a, b) == IF a <= b THEN a ELSE b

C16_Preservation ==
    Solved =>
        \A i \in 0..(length - 1) :
            \A s \in StatesAt(i), t \in StatesAt(i + 1) :
                \A k \in 0..Min(s[2], t[2]) :
                    /\ Y4(model, i, k) <=> Y4(model, i + 1, k)
                    /\ Y6(model, i, k) <=> Y6(model, i + 1, k)

\* A satisfying assignment with a push and a pop, each keeping cell 0
\* under a 6.
C16_Witness ==
    /\ pc = "sat"
    /\ length = 2
    /\ \E n \in Nodes(network) : X(model, n, 1, 1)
    /\ Y6(model, 1, 1)
    /\ \A i \in 0..length : Y4(model, i, 0)

(***************************************************************************)
(* C17.  Height bound: in a satisfying assignment the height at position i *)
(* is at most min(i, L - i), hence at most L / 2, and at most L / 2 of the *)
(* transitions push; a network whose nodes enable pushes only, on which    *)
(* every walk needs more pushes than that, has no satisfying assignment.   *)
(***************************************************************************)
\* The positions from which the assignment pushes.
Pushes ==
    {i \in 0..(length - 1) :
        \E s \in StatesAt(i), t \in StatesAt(i + 1) : t[2] = s[2] + 1}

C17_HeightBound ==
    /\ Solved =>
          /\ \A i \in 0..length :
                \A s \in StatesAt(i) :
                    /\ s[2] <= Min(i, length - i)
                    /\ s[2] <= length \div 2
          /\ Cardinality(Pushes) <= length \div 2
    /\ (\A u \in Nodes(network) : network.acts[u] \subseteq PushTags) => ~Solved

\* A satisfying assignment that pushes L / 2 times in a row, L = 4.
C17_Witness ==
    /\ pc = "sat"
    /\ length = 4
    /\ Pushes = {0, 1}
    /\ \E n \in Nodes(network) : X(model, n, 2, 2)

Holds(M, i, k, c) == IF c = 4 THEN Y4(M, i, k) ELSE Y6(M, i, k)

PushTag(a, b) ==
    CASE a = 4 /\ b = 4 -> "push_4_4"
      [] a = 4 /\ b = 6 -> "push_4_6"
      [] a = 6 /\ b = 4 -> "push_6_4"
      [] a = 6 /\ b = 6 -> "push_6_6"

PopTag(a, b) ==
    CASE a = 4 /\ b = 4 -> "pop_4_4"
      [] a = 4 /\ b = 6 -> "pop_4_6"
      [] a = 6 /\ b = 4 -> "pop_6_4"
      [] a = 6 /\ b = 6 -> "pop_6_6"

\* The positions from which the assignment pops.
Pops ==
    {i \in 0..(length - 1) :
        \E s \in StatesAt(i), t \in StatesAt(i + 1) : t[2] = s[2] - 1}

\* C14 as stated: the tag is pop_a_b with a the symbol of cell h, the
\* popped top, and b the symbol of cell h - 1, the exposed cell.
C14_PopTagTopFirst ==
    (pc = "decoded") =>
        \A i \in Pops : \A s \in StatesAt(i) :
            \E a \in {4, 6}, b \in {4, 6} :
                /\ Holds(model, i, s[2], a)
                /\ Holds(model, i, s[2] - 1, b)
                /\ path[i].action = PopTag(a, b)

\* C14 amended: the tag is pop_a_b with a the symbol of cell h - 1, the
\* exposed cell, and b the symbol of cell h, the popped top.
C14_PopTagTopLast ==
    (pc = "decoded") =>
        \A i \in Pops : \A s \in StatesAt(i) :
            \E a \in {4, 6}, b \in {4, 6} :
                /\ Holds(model, i, s[2] - 1, a)
                /\ Holds(model, i, s[2], b)
                /\ path[i].action = PopTag(a, b)

\* A decoded path that pops a 4 off a 6, then the 6 off the bottom marker.
C14_Witness ==
    /\ pc = "decoded"
    /\ length = 4
    /\ Pops = {2, 3}
    /\ Y4(model, 2, 2) /\ Y6(model, 2, 1) /\ Y4(model, 2, 0)
    /\ path[2].action = "pop_6_4"
    /\ path[3].action = "pop_4_6"

(***************************************************************************)
(* C18.  Decoder output shape: the decoder writes the L entries            *)
(* path[0..L-1]; entry i is (action, node of position i, node of position  *)
(* i + 1); at equal heights the action is transmit_4 if y4[i, h_i] is true *)
(* and transmit_6 otherwise; when the height grows it is the push_a_b with *)
(* y_a[i, h_i] and y_b[i + 1, h_i + 1] true.                               *)
(***************************************************************************)
C18_OutputShape ==
    (pc = "decoded") =>
        /\ DOMAIN path = 0..(length - 1)
        /\ \A i \in 0..(length - 2) : path[i].tgt = path[i + 1].src
        /\ \A i \in 0..(length - 1) :
              \A s \in StatesAt(i), t \in StatesAt(i + 1) :
                  /\ path[i].src = s[1]
                  /\ path[i].tgt = t[1]
                  /\ (t[2] = s[2]) =>
                        path[i].action = IF Y4(model, i, s[2])
                                         THEN "transmit_4" ELSE "transmit_6"
                  /\ (t[2] = s[2] + 1) =>
                        \E a \in {4, 6}, b \in {4, 6} :
                            /\ Holds(model, i, s[2], a)
                            /\ Holds(model, i + 1, t[2], b)
                            /\ path[i].action = PushTag(a, b)

\* A decoded path that pushes a 6 and then transmits under it.
C18_Witness ==
    /\ pc = "decoded"
    /\ length = 4
    /\ path[0].action = "push_4_6"
    /\ path[1].action = "transmit_6"
    /\ path[1].src # path[1].tgt

(***************************************************************************)
(* C13.  Decoder on a malformed model: at a position where more than one   *)
(* x is true the decoder takes as the state the first true pair            *)
(* (node, height) of its scan, nodes ascending and heights ascending       *)
(* within a node.  The decoder has no path that reports an error.          *)
(***************************************************************************)
\* The first of the states of a non-empty set in the order of the scan.
FirstSeen(found) ==
    CHOOSE s \in found :
        \A t \in found : s[1] < t[1] \/ (s[1] = t[1] /\ s[2] <= t[2])

C13_FirstWitness ==
    (pc = "decoded given") =>
        \A pos \in 0..(length - 1) :
            /\ (Cardinality(StatesAt(pos)) > 1) =>
                  path[pos].src = FirstSeen(StatesAt(pos))[1]
            /\ (Cardinality(StatesAt(pos + 1)) > 1) =>
                  path[pos].tgt = FirstSeen(StatesAt(pos + 1))[1]

(***************************************************************************)
(* C20.  Pretty-printer stack diagnosis: when tn_print_model prints the    *)
(* ill-defined-stack warning for a position.                               *)
(***************************************************************************)
\* Cell k of position pos has a bit set, has both bits set.
BitSet(pos, k) == Y4(model, pos, k) \/ Y6(model, pos, k)

BothSet(pos, k) == Y4(model, pos, k) /\ Y6(model, pos, k)

\* Some cell has a bit set above a lower cell that has neither bit set.
SetAboveEmpty(pos) ==
    \E k \in Heights(length), j \in Heights(length) :
        j < k /\ ~BitSet(pos, j) /\ BitSet(pos, k)

\* C20 as stated: the warning is printed exactly when some cell has a bit
\* set above a lower cell that has neither.
C20_WarningOnGapOnly ==
    (pc = "printed") =>
        \A pos \in 0..length : printed[pos].warning <=> SetAboveEmpty(pos)

\* C20 amended: the warning is printed exactly when some cell has a bit
\* set above a lower cell that has neither, or some cell has both bits set.
C20_WarningOnGapOrBoth ==
    (pc = "printed") =>
        \A pos \in 0..length :
            printed[pos].warning <=>
                (SetAboveEmpty(pos) \/ \E k \in Heights(length) : BothSet(pos, k))

\* A printed assignment with a 6 above an empty cell at one position, a
\* cell with both bits at another, and a well-formed stack at a third.
C20_Witness ==
    /\ pc = "printed"
    /\ printed[0].stack = <<"| ", "|6">> /\ printed[0].warning
    /\ printed[1].stack = <<"|X", "| ">> /\ printed[1].warning
    /\ printed[2].stack = <<"|4", "|6">> /\ ~printed[2].warning

(***************************************************************************)
(* C21.  Decoded action is enabled: every step (action, u, v) decoded from *)
(* a satisfying assignment carries an action tag that the network enables  *)
(* at the step's source node u.                                            *)
(***************************************************************************)
C21_DecodedActionEnabled ==
    (pc = "decoded") =>
        \A pos \in 0..(length - 1) :
            tn_node_has_action(network, path[pos].src, path[pos].action)

\* A decoded path of two steps, a push then a pop, each from a node that
\* enables other actions too.
C21_Witness ==
    /\ pc = "decoded"
    /\ length = 2
    /\ Kind(path[0].action) = "push"
    /\ Kind(path[1].action) = "pop"
    /\ \A pos \in 0..1 : Cardinality(network.acts[path[pos].src]) > 1
    /\ \A pos \in 0..1 :
           tn_node_has_action(network, path[pos].src, path[pos].action)

(***************************************************************************)
(* C22.  Bottom marker is constant: in every satisfying assignment cell 0  *)
(* holds the symbol 4 and not the symbol 6 at every position 0..L, the     *)
(* positions between the two ends included.                                *)
(***************************************************************************)
C22_BottomMarker ==
    Solved =>
        \A i \in 0..length : Y4(model, i, 0) /\ ~Y6(model, i, 0)

\* A satisfying assignment whose middle position is at height 1, a 4 pushed
\* above the bottom marker, which is still in cell 0 there.
C22_Witness ==
    /\ pc = "sat"
    /\ length = 2
    /\ \E n \in Nodes(network) : X(model, n, 1, 1)
    /\ Y4(model, 1, 1)
    /\ Y4(model, 1, 0) /\ ~Y6(model, 1, 0)

(***************************************************************************)
(* C23.  Transition staging buffer is never overrun: at every point of the *)
(* run of creer_contraintes_transitions the number of constraints stored   *)
(* in all_constraints is at most the capacity allocated, max_constraints = *)
(* L * n * n * H * 30.                                                     *)
(***************************************************************************)
C23_BufferNeverOverrun ==
    num_constraints <= max_constraints(network, length)

====
